---- MODULE Spec2Model ----
(***************************************************************************)
(* A model of Repsense: the profile-upload / chat-turn backend behind the  *)
(* REST API, the upload modal, the chat layout and the routine pages of    *)
(* the Next.js frontend, and the feedback resolver.                        *)
(*                                                                         *)
(* The frontend is modelled from the TypeScript under src/frontend.  The   *)
(* Python backend (backend/, agentic/) is not part of src/: only its       *)
(* READMEs, the SQL schema and its HTTP callers are.  The handlers of the  *)
(* backend are therefore modelled from spec.md and are marked as such.     *)
(***************************************************************************)
EXTENDS Integers, Sequences, FiniteSets, TLC

\* ------------------------------------------------------------------ bounds
MaxUploads == 3        \* upload requests in a run of the upload handler alone
MaxChatUploads == 2    \* upload requests in a run that also handles chat turns
MaxModalUploads == 2   \* files processed by one UploadModal
MaxEvents == 3         \* user actions (send, select, new chat) on one ChatLayout
MaxRoutines == 6       \* routines stored in a run of the feedback resolver
MaxRows == 4           \* rows of a CSV handed to profile generation
MaxWeeklySets == 24    \* weekly set counts classified
MaxHistory == 2        \* routines in the list of the history page
MaxAddCalls == 1       \* clicks on "Send to chat"
MaxLogins == 2         \* login attempts in one visit of the home page
MaxVisits == 2         \* loads of the home page
MaxDbRows == 2         \* rows in the database
MaxResets == 2         \* runs of the reset script
MaxReplies == 3        \* replies shown on the chat screen

\* ------------------------------------------------------------- variables
VARIABLES
    user_profiles,   \* table user_profiles: a set of rows
    uploads,         \* POST /profile/upload requests, in order of arrival
    chat_turn,       \* the last POST /chat/message turn handled by the backend
    modal,           \* UploadModal: the isOpen prop and the useState fields
    modalReqs,       \* the uploadCSV calls of the modal, in order of issue
    chat,            \* ChatLayout: the useState fields; ids generated, user actions
    sends,           \* the sendMessage calls of handleSendMessage, in order
    selects,         \* the getChatMessages calls of handleSelectSession, in order
    serverHistory,   \* chat_messages on the server, per chat id
    pages,           \* RoutinePage and RoutinesHistoryPage: state and the fetch
    routines,        \* the routines table, in creation order
    feedback,        \* the feedback resolution being answered
    analysis,        \* a CSV being composed and the profile generated from it
    muscle_status,   \* a weekly set count, a band and the status assigned
    history,         \* RoutinesHistoryPage: list, modal and where the browser is
    addCalls,        \* the calls of handleAddToChat
    localStorage,    \* the browser's localStorage, as key / value pairs
    home,            \* Home: view, auth check, LoginScreen
    logins,          \* the login attempts of the visit
    db,              \* the relational store: tables, rows, indexes
    screen           \* ChatScreen: the replies received and what is rendered

backendVars == <<user_profiles, uploads, chat_turn>>
modalVars == <<modal, modalReqs>>
chatVars == <<chat, sends, selects, serverHistory>>
vars == <<user_profiles, uploads, chat_turn, modal, modalReqs,
          chat, sends, selects, serverHistory, pages, routines, feedback,
          analysis, muscle_status, history, addCalls, localStorage, home, logins,
          db, screen>>
aggVars == <<analysis, muscle_status>>
historyVars == <<history, addCalls, localStorage>>
homeVars == <<home, logins>>
dbVars == <<db>>
renderVars == <<screen>>
pageVars == <<pages>>
feedbackVars == <<routines, feedback>>

None == "none"

Users == {"alice", "bob"}

\* ===================================================================
\* Backend: CSV -> profile (agentic/src, modelled from spec.md 4.1, 4.2)
\* ===================================================================

\* README "Expected CSV columns"
RequiredColumns ==
    {"exercise_title", "start_time", "end_time", "weight_kg", "reps", "set_index"}

\* A CSV cell: a number, or text that does not parse as one.
Num(n) == [isnum |-> TRUE, v |-> n]
Txt == [isnum |-> FALSE, v |-> 0]

Row(ex, day, w, r, i) ==
    [exercise_title |-> ex, start_time |-> day, end_time |-> day,
     weight_kg |-> w, reps |-> r, set_index |-> i]

\* The uploaded files the model draws from.  "noreps" lacks the reps column.
CsvFiles ==
    "bench"  :> [columns |-> RequiredColumns,
                 rows |-> << Row("Bench Press", 1, Num(100), Num(5), 0),
                             Row("Bench Press", 1, Num(80), Txt, 1) >>]
 @@ "squat"  :> [columns |-> RequiredColumns,
                 rows |-> << Row("Squat", 1, Num(120), Num(3), 0),
                             Row("Zercher Carry", 2, Num(40), Num(10), 0) >>]
 @@ "noreps" :> [columns |-> RequiredColumns \ {"reps"},
                 rows |-> << [exercise_title |-> "Bench Press", start_time |-> 1,
                              end_time |-> 1, weight_kg |-> Num(100),
                              set_index |-> 0] >>]

CsvNames == DOMAIN CsvFiles

\* config.py exercise-to-muscle mapping, as the agentic README lists it
MuscleOf(ex) ==
    CASE ex \in {"Bench Press", "Incline Fly", "Chest Fly"} -> "Chest"
      [] ex \in {"Bicep Curl", "Reverse Curl", "Triceps Pushdown",
                 "Triceps Extension"} -> "Arms"
      [] ex \in {"Lat Pulldown"} -> "Back"
      [] ex \in {"Shoulder Press", "Shrug"} -> "Shoulders"
      [] ex \in {"Squat", "Deadlift", "Romanian Deadlift"} -> "Legs"
      [] OTHER -> "unclassified"

\* 4.1: column presence
HasRequiredColumns(csv) == RequiredColumns \subseteq csv.columns

\* 4.1: a row parses when weight and reps are numeric
RowParses(row) == row.weight_kg.isnum /\ row.reps.isnum

\* Mutant: parsing stops at the first row that does not parse.
RECURSIVE Normalize_StopAtBadRow(_)
Normalize_StopAtBadRow(rows) ==
    IF rows = << >> THEN << >>
    ELSE LET r == Head(rows)
         IN IF r.weight_kg.isnum /\ r.reps.isnum
            THEN << [exercise |-> r.exercise_title, day |-> r.start_time,
                     weight |-> r.weight_kg.v, reps |-> r.reps.v,
                     set_index |-> r.set_index] >>
                 \o Normalize_StopAtBadRow(Tail(rows))
            ELSE << >>

\* 4.1: the WorkoutSet records of the parseable rows, in file order
RECURSIVE Normalize(_)
Normalize(rows) ==
    IF rows = << >> THEN << >>
    ELSE LET rest == Normalize(Tail(rows))
             r == Head(rows)
         IN IF RowParses(r)
            THEN << [exercise |-> r.exercise_title, day |-> r.start_time,
                     weight |-> r.weight_kg.v, reps |-> r.reps.v,
                     set_index |-> r.set_index] >> \o rest
            ELSE rest

RECURSIVE SumVolume(_, _)
SumVolume(sets, ex) ==
    IF sets = << >> THEN 0
    ELSE (IF Head(sets).exercise = ex THEN Head(sets).weight * Head(sets).reps ELSE 0)
         + SumVolume(Tail(sets), ex)

RECURSIVE BestSet(_, _)
BestSet(sets, ex) ==
    IF sets = << >> THEN 0
    ELSE LET b == BestSet(Tail(sets), ex)
             s == Head(sets)
             v == IF s.exercise = ex THEN s.weight * s.reps ELSE 0
         IN IF v > b THEN v ELSE b

ExercisesOf(sets) == {sets[i].exercise : i \in 1..Len(sets)}

\* Mutant: the division of reps by 30 done in integers.
Estimated1RM_IntegerDivision(weight, reps) == weight * (1 + reps \div 30) * 100

\* 4.2: estimated 1RM = weight x (1 + reps/30), in hundredths, rounded to the
\* nearest hundredth
Estimated1RM(weight, reps) == (weight * (30 + reps) * 100 * 2 + 30) \div 60

\* The minimum-session threshold of the trend and the number N of sessions
\* the slope is taken over (4.2 names them without giving their values)
MinTrendSessions == 3
TrendWindow == 3

\* Positions of the sets of exercise ex, and the days (sessions) it was done
SetsOf(sets, ex) == {i \in 1..Len(sets) : sets[i].exercise = ex}
SessionDays(sets, ex) == {sets[i].day : i \in SetsOf(sets, ex)}

MaxOf(S) == CHOOSE m \in S : \A x \in S : x <= m

\* Estimated 1RM of a session: the best of its sets
SessionE1RM(sets, ex, d) ==
    MaxOf({Estimated1RM(sets[i].weight, sets[i].reps) :
             i \in {j \in SetsOf(sets, ex) : sets[j].day = d}})

\* The last TrendWindow sessions of the exercise
RecentSessions(sets, ex) ==
    {d \in SessionDays(sets, ex) :
        Cardinality({e \in SessionDays(sets, ex) : e > d}) < TrendWindow}

\* Sum over the sessions in D of (2 x index - (n + 1)) x estimated 1RM, the
\* numerator of the least-squares slope up to a positive factor; W is the
\* whole window
RECURSIVE SlopeSum(_, _, _, _)
SlopeSum(sets, ex, W, D) ==
    IF D = {} THEN 0
    ELSE LET d == CHOOSE x \in D : TRUE
             index == 1 + Cardinality({e \in W : e < d})
         IN (2 * index - (Cardinality(W) + 1)) * SessionE1RM(sets, ex, d)
            + SlopeSum(sets, ex, W, D \ {d})

\* Mutant: a trend is reported from the first session on.
Trend_NoThreshold(sets, ex) ==
    LET W == RecentSessions(sets, ex)
        s == SlopeSum(sets, ex, W, W)
    IN IF s > 0 THEN "up" ELSE IF s < 0 THEN "down" ELSE "flat"

\* 4.2: sign of the slope of estimated 1RM over the last N sessions, or
\* "insufficient data" below the minimum-session threshold
Trend(sets, ex) ==
    IF Cardinality(SessionDays(sets, ex)) < MinTrendSessions
    THEN "insufficient data"
    ELSE LET W == RecentSessions(sets, ex)
             s == SlopeSum(sets, ex, W, W)
         IN IF s > 0 THEN "up" ELSE IF s < 0 THEN "down" ELSE "flat"

\* The "optimal" band of weekly sets (the 6-12 band of the example in 8)
OptimalBand == [lo |-> 6, hi |-> 12]

\* Mutant: a count on the lower bound counts as undertrained, one on the
\* upper bound as high volume.
TrainingStatus_Exclusive(count, band) ==
    IF count <= band.lo THEN "undertrained"
    ELSE IF count >= band.hi THEN "high_volume"
    ELSE "optimal"

\* 4.2: weekly set count against the fixed band
TrainingStatus(count, band) ==
    IF count < band.lo THEN "undertrained"
    ELSE IF count > band.hi THEN "high_volume"
    ELSE "optimal"

MusclesOf(sets) == {MuscleOf(sets[i].exercise) : i \in 1..Len(sets)}

\* Weekly sets of a muscle group.  The workout data of the model lies within
\* one week, so the weekly count is the count of the group's sets.
WeeklySets(sets, m) ==
    Cardinality({i \in 1..Len(sets) : MuscleOf(sets[i].exercise) = m})

\* 4.2: one MuscleStat per muscle group trained
AggregateMuscles(sets) ==
    {[muscle |-> m, weekly_sets |-> WeeklySets(sets, m),
      status |-> TrainingStatus(WeeklySets(sets, m), OptimalBand)] :
        m \in MusclesOf(sets)}

\* 4.2: one ExerciseStat per distinct exercise name
Aggregate(sets) ==
    {[name |-> ex, muscle |-> MuscleOf(ex),
      total_volume |-> SumVolume(sets, ex),
      best_set |-> BestSet(sets, ex),
      estimated_1rm |-> MaxOf({Estimated1RM(sets[i].weight, sets[i].reps) :
                                 i \in SetsOf(sets, ex)}),
      sessions |-> Cardinality(SessionDays(sets, ex)),
      trend |-> Trend(sets, ex)] : ex \in ExercisesOf(sets)}

\* Mutant: a file without workout sets is refused.
generate_profile_EmptyFails(csv) ==
    IF ~HasRequiredColumns(csv) \/ Normalize(csv.rows) = << >>
    THEN [ok |-> FALSE, error |-> "MalformedInput", exercises |-> {},
          muscles |-> {}, warnings |-> 0]
    ELSE LET sets == Normalize(csv.rows)
         IN [ok |-> TRUE, error |-> None, exercises |-> Aggregate(sets),
             muscles |-> AggregateMuscles(sets),
             warnings |-> Len(csv.rows) - Len(sets)]

\* main_profile_gen.generate_profile: MalformedInput, or the whole profile
generate_profile(csv) ==
    IF ~HasRequiredColumns(csv)
    THEN [ok |-> FALSE, error |-> "MalformedInput", exercises |-> {},
          muscles |-> {}, warnings |-> 0]
    ELSE LET sets == Normalize(csv.rows)
         IN [ok |-> TRUE, error |-> None, exercises |-> Aggregate(sets),
             muscles |-> AggregateMuscles(sets),
             warnings |-> Len(csv.rows) - Len(sets)]

\* ===================================================================
\* Backend: POST /profile/upload and the user_profiles table
\* ===================================================================

\* The profile as stored in profile_json
ProfileJson(res) ==
    [exists |-> TRUE, exercises |-> res.exercises, muscles |-> res.muscles,
     warnings |-> res.warnings]

\* GET /profile/{user_id} answers exists: false for a user without a row
NoProfile == [exists |-> FALSE, exercises |-> {}, muscles |-> {}, warnings |-> 0]

\* Mutant: the new profile is merged into the user's previous one.
UpsertProfile_Merging(rows, row) ==
    {x \in rows : x.user_id # row.user_id}
    \cup {[row EXCEPT !.profile_json.exercises =
              @ \cup UNION {x.profile_json.exercises :
                              x \in {y \in rows : y.user_id = row.user_id}}]}

\* Mutant: one profile for the whole installation (a single user_profile.json).
UpsertProfile_SharedFile(rows, row) ==
    {[x EXCEPT !.profile_json = row.profile_json, !.generated_at = row.generated_at]
        : x \in rows} \cup {row}

\* user_profiles(user_id TEXT PRIMARY KEY, profile_json, generated_at):
\* writing a row replaces the row of the same user_id.
UpsertProfile(rows, row) ==
    {x \in rows : x.user_id # row.user_id} \cup {row}

ProfileRowsOf(u) == {x \in user_profiles : x.user_id = u}

\* The profile a request of user u reads: the user's row, if any
LoadProfile(u) ==
    IF ProfileRowsOf(u) = {} THEN NoProfile
    ELSE (CHOOSE x \in ProfileRowsOf(u) :
             \A y \in ProfileRowsOf(u) : y.generated_at <= x.generated_at).profile_json

\* generated_at of the next write: writes are numbered in the order they happen
NextStamp == 1 + Cardinality({i \in 1..Len(uploads) : uploads[i].generated_at > 0})

\* uploadCSV: the form carries user_id and the file
POST_profile_upload(u, f) ==
    /\ Len(uploads) < MaxUploads
    /\ uploads' = Append(uploads,
          [user_id |-> u, file |-> f, pc |-> "received",
           profile |-> NoProfile, error |-> None, generated_at |-> 0])
    /\ UNCHANGED <<user_profiles, chat_turn, modalVars, chatVars, dbVars, renderVars, pageVars, feedbackVars, aggVars, historyVars, homeVars>>

\* Mutant: a malformed file yields an empty (partial) profile that is stored.
profile_upload_generate_Partial(i) ==
    /\ uploads[i].pc = "received"
    /\ LET res == generate_profile(CsvFiles[uploads[i].file])
       IN uploads' = [uploads EXCEPT ![i] =
             [@ EXCEPT !.pc = "generated", !.profile = ProfileJson(res)]]
    /\ UNCHANGED <<user_profiles, chat_turn, modalVars, chatVars, dbVars, renderVars, pageVars, feedbackVars, aggVars, historyVars, homeVars>>

\* Mutant: generation starts from the profile the user already has.
profile_upload_generate_Incremental(i) ==
    /\ uploads[i].pc = "received"
    /\ LET res == generate_profile(CsvFiles[uploads[i].file])
           old == UNION {x.profile_json.exercises : x \in ProfileRowsOf(uploads[i].user_id)}
       IN uploads' = [uploads EXCEPT ![i] =
             IF res.ok
             THEN [@ EXCEPT !.pc = "generated",
                            !.profile = [exists |-> TRUE,
                                         exercises |-> res.exercises \cup old,
                                         muscles |-> res.muscles,
                                         warnings |-> res.warnings]]
             ELSE [@ EXCEPT !.pc = "failed", !.error = res.error]]
    /\ UNCHANGED <<user_profiles, chat_turn, modalVars, chatVars, dbVars, renderVars, pageVars, feedbackVars, aggVars, historyVars, homeVars>>

\* The handler parses the file and generates the profile; a malformed file
\* ends the request with MalformedInput.
profile_upload_generate(i) ==
    /\ uploads[i].pc = "received"
    /\ LET res == generate_profile(CsvFiles[uploads[i].file])
       IN uploads' = [uploads EXCEPT ![i] =
             IF res.ok
             THEN [@ EXCEPT !.pc = "generated", !.profile = ProfileJson(res)]
             ELSE [@ EXCEPT !.pc = "failed", !.error = res.error]]
    /\ UNCHANGED <<user_profiles, chat_turn, modalVars, chatVars, dbVars, renderVars, pageVars, feedbackVars, aggVars, historyVars, homeVars>>

\* The handler writes the generated profile: last write wins.
profile_upload_store(i) ==
    /\ uploads[i].pc = "generated"
    /\ user_profiles' = UpsertProfile(user_profiles,
          [user_id |-> uploads[i].user_id,
           profile_json |-> uploads[i].profile,
           generated_at |-> NextStamp])
    /\ uploads' = [uploads EXCEPT ![i] =
          [@ EXCEPT !.pc = "stored", !.generated_at = NextStamp]]
    /\ UNCHANGED <<chat_turn, modalVars, chatVars, dbVars, renderVars, pageVars, feedbackVars, aggVars, historyVars, homeVars>>

\* ===================================================================
\* Backend: POST /chat/message (main_chat.handle_chat_turn)
\* ===================================================================

Queries == {"Give me a push day routine", "How is my bench press progressing?"}

\* What the classification call can come back with
ClassifyOutcomes == {"ROUTINE_GENERATION", "REASONING", "FAIL"}
\* What the generation call can come back with
GenerateOutcomes == {"ok", "fail"}

\* Mutant: the fallback intent is the other member of the enum.
classify_intent_WrongDefault(outcome) ==
    IF outcome = "FAIL" THEN "ROUTINE_GENERATION" ELSE outcome

\* 4.3: a failed classification call degrades to REASONING
classify_intent(outcome) ==
    IF outcome = "FAIL" THEN "REASONING" ELSE outcome

\* 4.3 / 7: the turn.  A failed generation call is ModelUnavailable.
handle_chat_turn(query, profile, classify, generate) ==
    LET intent == classify_intent(classify)
    IN [intent |-> intent,
        type |-> IF generate = "fail" THEN "ModelUnavailable"
                 ELSE IF intent = "ROUTINE_GENERATION" THEN "routine"
                 ELSE "advice"]

\* No turn handled yet
NoTurn ==
    [user_id |-> None, query |-> None, classify |-> None, generate |-> None,
     profile |-> NoProfile, result |-> [intent |-> None, type |-> None]]

POST_chat_message(u, q, classify, generate) ==
    /\ chat_turn' =
          [user_id |-> u, query |-> q, classify |-> classify,
           generate |-> generate, profile |-> LoadProfile(u),
           result |-> handle_chat_turn(q, LoadProfile(u), classify, generate)]
    /\ UNCHANGED <<user_profiles, uploads, modalVars, chatVars, dbVars, renderVars, pageVars, feedbackVars, aggVars, historyVars, homeVars>>

\* ===================================================================
\* Frontend: uploadCSV and UploadModal
\* ===================================================================

\* What fetch(POST /profile/upload) can end with: a response whose ok flag is
\* set, a response whose ok flag is not, or a rejected fetch.
UploadStatuses == {"OK", "Bad Request", "Internal Server Error", "network"}

FileNames == {"a.csv", "b.csv"}

\* uploadCSV: throws on a response that is not ok, and when fetch rejects
uploadCSV(status) ==
    CASE status = "OK" -> [threw |-> FALSE, message |-> <<"profile_generated">>]
      [] status = "network" -> [threw |-> TRUE, message |-> <<"Failed to fetch">>]
      [] OTHER -> [threw |-> TRUE, message |-> <<"Upload failed: ", status>>]

NoError == << >>

\* processFile after the await: try / catch / finally
processFile_settle(m, status) ==
    LET r == uploadCSV(status)
    IN IF r.threw
       THEN [m EXCEPT !.error = r.message, !.isParsing = FALSE]
       ELSE [m EXCEPT !.uploadDone = TRUE, !.isParsing = FALSE]

\* resetState
resetState(m) ==
    [m EXCEPT !.file = None, !.isParsing = FALSE, !.uploadDone = FALSE,
              !.error = NoError]

\* processFile up to the await.  While isParsing the drop zone takes no pointer
\* events and the file input is not rendered.
processFile(f) ==
    /\ modal.isOpen /\ ~modal.isParsing
    /\ Len(modalReqs) < MaxModalUploads
    /\ modal' = [modal EXCEPT !.file = f, !.isParsing = TRUE,
                              !.uploadDone = FALSE, !.error = NoError]
    /\ modalReqs' = Append(modalReqs, [file |-> f, pc |-> "sent", status |-> None])
    /\ UNCHANGED <<backendVars, chatVars, dbVars, renderVars, pageVars, feedbackVars, aggVars, historyVars, homeVars>>

\* The upload request of call i settles and processFile resumes.
processFile_resume(i, status) ==
    /\ modalReqs[i].pc = "sent"
    /\ modalReqs' = [modalReqs EXCEPT ![i] = [@ EXCEPT !.pc = "done", !.status = status]]
    /\ modal' = processFile_settle(modal, status)
    /\ UNCHANGED <<backendVars, chatVars, dbVars, renderVars, pageVars, feedbackVars, aggVars, historyVars, homeVars>>

\* handleClose: resetState, then onClose (the parent clears isOpen)
handleClose ==
    /\ modal.isOpen
    /\ modal' = [resetState(modal) EXCEPT !.isOpen = FALSE]
    /\ UNCHANGED <<modalReqs, backendVars, chatVars, dbVars, renderVars, pageVars, feedbackVars, aggVars, historyVars, homeVars>>

\* The parent sets isOpen again.  The component renders nothing while closed
\* and resets its state on close: it stays mounted, state kept, across
\* close and open.
ModalOpen ==
    /\ ~modal.isOpen
    /\ modal' = [modal EXCEPT !.isOpen = TRUE]
    /\ UNCHANGED <<modalReqs, backendVars, chatVars, dbVars, renderVars, pageVars, feedbackVars, aggVars, historyVars, homeVars>>

\* What the modal shows
ModalView ==
    IF ~modal.isOpen THEN "closed"
    ELSE IF modal.isParsing THEN "Uploading & analyzing..."
    ELSE IF modal.uploadDone THEN "Profile updated successfully"
    ELSE IF modal.error # NoError THEN "Upload failed"
    ELSE "Drag & drop your CSV file here"

ModalInit ==
    /\ modal = [isOpen |-> FALSE, file |-> None, isParsing |-> FALSE,
                uploadDone |-> FALSE, error |-> NoError]
    /\ modalReqs = << >>

ModalNext ==
    \/ \E f \in FileNames : processFile(f)
    \/ \E i \in 1..Len(modalReqs), st \in UploadStatuses : processFile_resume(i, st)
    \/ handleClose
    \/ ModalOpen

\* ===================================================================
\* Frontend: ChatLayout and ChatScreen
\* ===================================================================

\* Chat ids: the sessions the server already holds, and generateId() values
NullId == <<"null", 0>>
OldSessions == {<<"session", 1>>, <<"session", 2>>}
generateId(n) == <<"uuid", n>>

ChatMsg(role, content) == [role |-> role, content |-> content]

ErrorText == <<"Something went wrong. Please try again.">>

\* The stored messages of a session that existed before
OldHistory(id) ==
    << ChatMsg("user", <<"earlier question", id>>),
       ChatMsg("assistant", <<"earlier answer", id>>) >>

\* What POST /chat/message can end with: the two documented responses, or a
\* failure (a response that is not ok, a rejected fetch)
ChatOutcomes == {"chat", "routine", "error"}

\* sendMessage: throws on a response that is not ok and when fetch rejects,
\* else returns the body {type, text}
sendMessage(n, outcome) ==
    CASE outcome = "chat" -> [threw |-> FALSE, text |-> <<"advice", n>>]
      [] outcome = "routine" -> [threw |-> FALSE, text |-> <<"routine-gen-", n>>]
      [] OTHER -> [threw |-> TRUE, text |-> << >>]

\* ids that have messages on the server: what GET /chat/sessions lists
ServerSessions == {id \in DOMAIN serverHistory : serverHistory[id] # << >>}

\* handleNewChat
handleNewChat ==
    /\ chat.events < MaxEvents
    /\ chat' = [chat EXCEPT !.events = @ + 1,
                            !.activeSessionId = NullId,
                            !.chatId = generateId(chat.generated + 1),
                            !.generated = @ + 1,
                            !.messages = << >>]
    /\ UNCHANGED <<sends, selects, serverHistory>>
    /\ UNCHANGED <<backendVars, modalVars, dbVars, renderVars, pageVars, feedbackVars, aggVars, historyVars, homeVars>>

\* handleSelectSession up to the await
handleSelectSession(id) ==
    /\ id \in chat.sessions
    /\ chat.events < MaxEvents
    /\ chat' = [chat EXCEPT !.events = @ + 1, !.activeSessionId = id, !.chatId = id]
    /\ selects' = Append(selects, [id |-> id, pc |-> "sent"])
    /\ UNCHANGED <<sends, serverHistory>>
    /\ UNCHANGED <<backendVars, modalVars, dbVars, renderVars, pageVars, feedbackVars, aggVars, historyVars, homeVars>>

\* handleSelectSession after the await: the messages of the response replace
\* the list; a failed request empties it.
handleSelectSession_resume(k, ok) ==
    /\ selects[k].pc = "sent"
    /\ selects' = [selects EXCEPT ![k] = [@ EXCEPT !.pc = "done"]]
    /\ chat' = [chat EXCEPT !.messages =
                   IF ok THEN serverHistory[selects[k].id] ELSE << >>]
    /\ UNCHANGED <<sends, serverHistory>>
    /\ UNCHANGED <<backendVars, modalVars, dbVars, renderVars, pageVars, feedbackVars, aggVars, historyVars, homeVars>>

\* handleSendMessage up to the await.  chatId and activeSessionId are the
\* values of the render in which the callback was created.
handleSendMessage(content) ==
    /\ chat.events < MaxEvents
    /\ chat' = [chat EXCEPT !.events = @ + 1,
                            !.messages = Append(@, ChatMsg("user", content)),
                            !.isReplying = TRUE]
    /\ sends' = Append(sends,
          [chatId |-> chat.chatId, activeSessionId |-> chat.activeSessionId,
           content |-> content, pc |-> "sent", outcome |-> None])
    /\ UNCHANGED <<selects, serverHistory>>
    /\ UNCHANGED <<backendVars, modalVars, dbVars, renderVars, pageVars, feedbackVars, aggVars, historyVars, homeVars>>

\* The text of the next message: a trimmed, non-empty input or a prompt
NextText == <<"message", Len(sends) + 1>>

\* ChatScreen.handleSend (send button, Enter): nothing while replying or
\* with an empty input
handleSend ==
    /\ ~chat.isReplying
    /\ handleSendMessage(NextText)

\* ChatScreen: the suggested prompts of the empty state
SuggestedPrompt ==
    /\ chat.messages = << >>
    /\ handleSendMessage(NextText)

\* The request of call n ends: the server stores the turn and answers, or
\* the request fails.
chat_message_served(n, outcome) ==
    /\ sends[n].pc = "sent"
    /\ sends' = [sends EXCEPT ![n] = [@ EXCEPT !.pc = "responded", !.outcome = outcome]]
    /\ serverHistory' =
          IF sendMessage(n, outcome).threw THEN serverHistory
          ELSE [serverHistory EXCEPT ![sends[n].chatId] =
                   @ \o << ChatMsg("user", sends[n].content),
                           ChatMsg("assistant", sendMessage(n, outcome).text) >>]
    /\ UNCHANGED <<chat, selects>>
    /\ UNCHANGED <<backendVars, modalVars, dbVars, renderVars, pageVars, feedbackVars, aggVars, historyVars, homeVars>>

\* Mutant: try / finally without the catch branch (no message on failure).
handleSendMessage_settle_NoCatch(c, n) ==
    LET res == sendMessage(n, sends[n].outcome)
    IN IF res.threw
       THEN [c EXCEPT !.isReplying = FALSE]
       ELSE [c EXCEPT !.messages = Append(@, ChatMsg("assistant", res.text)),
                      !.sessions = ServerSessions,
                      !.activeSessionId =
                         IF sends[n].activeSessionId = NullId
                         THEN sends[n].chatId ELSE @,
                      !.isReplying = FALSE]

\* handleSendMessage after the await: try / catch / finally.  The refresh of
\* the sidebar list (getChatSessions) is taken to be answered at once.
handleSendMessage_settle(c, n) ==
    LET res == sendMessage(n, sends[n].outcome)
    IN IF res.threw
       THEN [c EXCEPT !.messages = Append(@, ChatMsg("assistant", ErrorText)),
                      !.isReplying = FALSE]
       ELSE [c EXCEPT !.messages = Append(@, ChatMsg("assistant", res.text)),
                      !.sessions = ServerSessions,
                      !.activeSessionId =
                         IF sends[n].activeSessionId = NullId
                         THEN sends[n].chatId ELSE @,
                      !.isReplying = FALSE]

handleSendMessage_resume(n) ==
    /\ sends[n].pc = "responded"
    /\ sends' = [sends EXCEPT ![n] = [@ EXCEPT !.pc = "done"]]
    /\ chat' = handleSendMessage_settle(chat, n)
    /\ UNCHANGED <<selects, serverHistory>>
    /\ UNCHANGED <<backendVars, modalVars, dbVars, renderVars, pageVars, feedbackVars, aggVars, historyVars, homeVars>>

AllChatIds == OldSessions \cup {generateId(n) : n \in 1..(MaxEvents + 1)}

\* After the first render and the mount effect: a fresh chatId, the sidebar
\* lists the sessions of the server
ChatInit ==
    /\ chat = [events |-> 0,
               activeSessionId |-> NullId, chatId |-> generateId(1), generated |-> 1,
               messages |-> << >>, isReplying |-> FALSE, sessions |-> OldSessions]
    /\ sends = << >>
    /\ selects = << >>
    /\ serverHistory = [id \in AllChatIds |->
                           IF id \in OldSessions THEN OldHistory(id) ELSE << >>]

ChatNext ==
    \/ handleNewChat
    \/ \E id \in AllChatIds : handleSelectSession(id)
    \/ \E k \in 1..Len(selects), ok \in BOOLEAN : handleSelectSession_resume(k, ok)
    \/ handleSend
    \/ SuggestedPrompt
    \/ \E n \in 1..Len(sends), o \in ChatOutcomes : chat_message_served(n, o)
    \/ \E n \in 1..Len(sends) : handleSendMessage_resume(n)

\* Every request that is sent is answered or fails, and every settled promise
\* runs its continuation.
ChatFairness ==
    /\ WF_vars(\E n \in 1..Len(sends), o \in ChatOutcomes : chat_message_served(n, o))
    /\ WF_vars(\E n \in 1..Len(sends) : handleSendMessage_resume(n))

\* ===================================================================
\* Frontend: getAuthHeaders, getRoutine, getUserRoutines and their pages
\* ===================================================================

PageNames == {"RoutinePage", "RoutinesHistoryPage"}

\* What magic.user.isLoggedIn() can end with ("throws" stands also for a
\* failing import of ./magic and a throwing getMagic())
LoginOutcomes == {"true", "false", "throws"}
\* What magic.user.getIdToken() can end with
TokenOutcomes == {"token", "empty", "throws"}

AuthPcs == {"isLoggedIn", "getIdToken", "getIdToken_retry"}

MagicOutcomes(pc) == IF pc = "isLoggedIn" THEN LoginOutcomes ELSE TokenOutcomes

AuthReturn(headers) == [pc |-> "fetch", headers |-> headers]

\* Mutant: getAuthHeaders without its try / catch.
getAuthHeaders_NoCatch(pc, r) ==
    CASE r = "throws" -> [pc |-> "rejected", headers |-> "unset"]
      [] pc = "isLoggedIn" /\ r = "false" -> AuthReturn("none")
      [] pc = "isLoggedIn" /\ r = "true" -> [pc |-> "getIdToken", headers |-> "unset"]
      [] pc \in {"getIdToken", "getIdToken_retry"} /\ r = "token" -> AuthReturn("Bearer")
      [] pc = "getIdToken" /\ r = "empty" -> [pc |-> "getIdToken_retry", headers |-> "unset"]
      [] OTHER -> AuthReturn("none")

\* getAuthHeaders, one await at a time: where it continues after the call at
\* pc ended with r, or the headers it returns
getAuthHeaders(pc, r) ==
    CASE r = "throws" -> AuthReturn("none")
      [] pc = "isLoggedIn" /\ r = "false" -> AuthReturn("none")
      [] pc = "isLoggedIn" /\ r = "true" -> [pc |-> "getIdToken", headers |-> "unset"]
      [] pc \in {"getIdToken", "getIdToken_retry"} /\ r = "token" -> AuthReturn("Bearer")
      [] pc = "getIdToken" /\ r = "empty" -> [pc |-> "getIdToken_retry", headers |-> "unset"]
      [] OTHER -> AuthReturn("none")

\* What fetch can end with: a response with a status, or a rejected fetch
FetchStatuses == {"200", "401", "403", "404", "500", "network"}

\* The routine endpoints are protected: a request without the Authorization
\* header is not answered with the content.
RoutineEndpointStatuses(headers) ==
    IF headers = "Bearer" THEN FetchStatuses ELSE FetchStatuses \ {"200"}

Returned(v) == [threw |-> FALSE, message |-> None, value |-> v]
Thrown(m) == [threw |-> TRUE, message |-> m, value |-> "null"]

\* Mutant: getRoutine as it was before the auth check.
getRoutine_NoAuthCheck(status) ==
    CASE status = "network" -> Thrown("Failed to fetch")
      [] status # "200" -> Returned("null")
      [] OTHER -> Returned("data")

\* getRoutine after the fetch
getRoutine(status) ==
    CASE status = "network" -> Thrown("Failed to fetch")
      [] status \in {"401", "403"} -> Thrown("auth")
      [] status # "200" -> Returned("null")
      [] OTHER -> Returned("data")

\* getUserRoutines after the fetch
getUserRoutines(status) ==
    CASE status = "network" -> Thrown("Failed to fetch")
      [] status \in {"401", "403"} -> Thrown("auth")
      [] status # "200" -> Thrown("Failed to load routines")
      [] OTHER -> Returned("data")

\* RoutinePage: .then / .catch / .finally of the effect
RoutinePage_settle(pg, res) ==
    IF res.threw
    THEN [pg EXCEPT !.error = IF res.message = "auth" THEN "auth" ELSE "generic",
                    !.loading = FALSE]
    ELSE [pg EXCEPT !.data = res.value,
                    !.error = IF res.value = "null" THEN "generic" ELSE @,
                    !.loading = FALSE]

\* RoutinesHistoryPage: .then / .catch / .finally of the effect
RoutinesHistoryPage_settle(pg, res) ==
    IF res.threw
    THEN [pg EXCEPT !.error = IF res.message = "auth" THEN "auth" ELSE "generic",
                    !.loading = FALSE]
    ELSE [pg EXCEPT !.data = res.value, !.loading = FALSE]

\* What the pages render
RoutinePageView(pg) ==
    IF pg.loading THEN "Spinner"
    ELSE IF pg.error # "null" \/ pg.data = "null"
         THEN (IF pg.error = "auth" THEN "Please log in to view this routine."
               ELSE "Routine not found")
    ELSE "routine"

RoutinesHistoryPageView(pg) ==
    IF pg.loading THEN "Spinner"
    ELSE IF pg.error # "null"
         THEN (IF pg.error = "auth" THEN "Please log in to view your routines."
               ELSE "Unable to load routines.")
    ELSE "routines"

PageView(p) ==
    IF p = "RoutinePage" THEN RoutinePageView(pages[p])
    ELSE RoutinesHistoryPageView(pages[p])

\* One await of getAuthHeaders ends.
getAuthHeaders_step(p, r) ==
    /\ pages[p].pc \in AuthPcs
    /\ r \in MagicOutcomes(pages[p].pc)
    /\ LET nxt == getAuthHeaders(pages[p].pc, r)
       IN pages' = [pages EXCEPT ![p] =
             [@ EXCEPT !.pc = nxt.pc, !.headers = nxt.headers,
                       !.magic = [@ EXCEPT ![pages[p].pc] = r]]]
    /\ UNCHANGED <<backendVars, modalVars, chatVars, dbVars, renderVars, feedbackVars, aggVars, historyVars, homeVars>>

\* The fetch of the page, sent with the headers getAuthHeaders returned, ends.
routines_fetch_served(p, status) ==
    /\ pages[p].pc = "fetch"
    /\ status \in RoutineEndpointStatuses(pages[p].headers)
    /\ pages' = [pages EXCEPT ![p] = [@ EXCEPT !.pc = "responded", !.status = status]]
    /\ UNCHANGED <<backendVars, modalVars, chatVars, dbVars, renderVars, feedbackVars, aggVars, historyVars, homeVars>>

\* The promise of getRoutine / getUserRoutines settles and the page handles it.
page_settle(p) ==
    /\ pages[p].pc \in {"responded", "rejected"}
    /\ LET res == IF pages[p].pc = "rejected" THEN Thrown("getAuthHeaders")
                  ELSE IF p = "RoutinePage" THEN getRoutine(pages[p].status)
                  ELSE getUserRoutines(pages[p].status)
           pg == [pages[p] EXCEPT !.pc = "done"]
       IN pages' = [pages EXCEPT ![p] =
             IF p = "RoutinePage" THEN RoutinePage_settle(pg, res)
             ELSE RoutinesHistoryPage_settle(pg, res)]
    /\ UNCHANGED <<backendVars, modalVars, chatVars, dbVars, renderVars, feedbackVars, aggVars, historyVars, homeVars>>

\* After the first render: loading, the effect has called the fetch function
PagesInit ==
    pages = [p \in PageNames |->
               [loading |-> TRUE, error |-> "null",
                data |-> IF p = "RoutinePage" THEN "null" ELSE "empty",
                pc |-> "isLoggedIn", headers |-> "unset", status |-> "unsent",
                magic |-> [a \in AuthPcs |-> "uncalled"]]]

PagesNext ==
    \/ \E p \in PageNames, r \in LoginOutcomes \cup TokenOutcomes : getAuthHeaders_step(p, r)
    \/ \E p \in PageNames, st \in FetchStatuses : routines_fetch_served(p, st)
    \/ \E p \in PageNames : page_settle(p)

\* ===================================================================
\* Backend: routine store and feedback resolver
\* ===================================================================

\* Candidate scores, in hundredths
Scores == {55, 68, 70, 90}

\* The fixed margin of the feedback resolver, in hundredths
FeedbackMargin == 20

\* How many of the user's routines are candidates
CandidateLimit == 5

\* Ids (positions in the routines table) of the routines of user u
RoutineIdsOf(u) == {i \in 1..Len(routines) : routines[i].user_id = u}

\* Mutant: every routine of the table is a candidate.
rank_routine_candidates_Unfiltered(u) == 1..Len(routines)

\* The CandidateLimit most recently created routines of user u
rank_routine_candidates(u) ==
    {i \in RoutineIdsOf(u) :
        Cardinality({j \in RoutineIdsOf(u) : j > i}) < CandidateLimit}

MaxScore(S, scores) == CHOOSE m \in {scores[c] : c \in S} : \A d \in S : scores[d] <= m

TopCandidate(cands, scores) ==
    CHOOSE c \in cands : scores[c] = MaxScore(cands, scores)

Selected(c) == [selected |-> c, type |-> "feedback"]
Clarification == [selected |-> 0, type |-> "clarification"]

\* Mutant: the top candidate must beat the runner-up by more than the margin.
resolve_routine_for_feedback_Strict(cands, scores, lone) ==
    IF cands = {} THEN Clarification
    ELSE LET top == TopCandidate(cands, scores)
             rest == cands \ {top}
         IN IF rest = {} THEN (IF lone THEN Selected(top) ELSE Clarification)
            ELSE IF scores[top] - MaxScore(rest, scores) > FeedbackMargin
                 THEN Selected(top) ELSE Clarification

\* The resolver: top score against the runner-up's. What a lone candidate
\* gets is not stated, so both outcomes are kept (lone).
resolve_routine_for_feedback(cands, scores, lone) ==
    IF cands = {} THEN Clarification
    ELSE LET top == TopCandidate(cands, scores)
             rest == cands \ {top}
         IN IF rest = {} THEN (IF lone THEN Selected(top) ELSE Clarification)
            ELSE IF scores[top] - MaxScore(rest, scores) >= FeedbackMargin
                 THEN Selected(top) ELSE Clarification

NoFeedback ==
    [pending |-> FALSE, user_id |-> None, candidates |-> {}, scores |-> << >>,
     selected |-> 0, type |-> None]

\* A generated routine is stored for user u.
save_routine(u) ==
    /\ Len(routines) < MaxRoutines
    /\ routines' = Append(routines, [user_id |-> u])
    /\ UNCHANGED <<feedback, backendVars, modalVars, chatVars, dbVars, renderVars, pageVars, aggVars, historyVars, homeVars>>

\* Feedback of user u arrives; the candidates are scored and one is resolved.
feedback_turn(u, lone) ==
    /\ ~feedback.pending
    /\ LET cands == rank_routine_candidates(u)
       IN \E scores \in [cands -> Scores] :
            LET res == resolve_routine_for_feedback(cands, scores, lone)
            IN feedback' = [pending |-> TRUE, user_id |-> u, candidates |-> cands,
                            scores |-> scores, selected |-> res.selected,
                            type |-> res.type]
    /\ UNCHANGED <<routines, backendVars, modalVars, chatVars, dbVars, renderVars, pageVars, aggVars, historyVars, homeVars>>

\* The answer to the feedback turn is returned.
feedback_turn_answered ==
    /\ feedback.pending
    /\ feedback' = NoFeedback
    /\ UNCHANGED <<routines, backendVars, modalVars, chatVars, dbVars, renderVars, pageVars, aggVars, historyVars, homeVars>>

FeedbackInit == routines = << >> /\ feedback = NoFeedback

FeedbackNext ==
    \/ \E u \in Users : save_routine(u)
    \/ \E u \in Users, lone \in BOOLEAN : feedback_turn(u, lone)
    \/ feedback_turn_answered

\* ===================================================================
\* Backend: profile generation and training status on their own
\* ===================================================================

AnalysisExercises == {"Bench Press", "Zercher Carry"}

\* weight_kg and reps cells of a row: two good pairs, one with text for the
\* reps, one with text for the weight
AnalysisCells ==
    {<<Num(100), Num(5)>>, <<Num(60), Num(5)>>, <<Num(100), Txt>>, <<Txt, Num(5)>>}

NotRun ==
    [ok |-> FALSE, error |-> "not run", exercises |-> {}, muscles |-> {},
     warnings |-> 0]

LastDay == IF analysis.rows = << >> THEN 1 ELSE analysis.rows[Len(analysis.rows)].start_time

\* A row is added to the export: of the session of the row before it, or of
\* a session on the next day.
csv_append_row(ex, cells, nextDay) ==
    /\ analysis.result = NotRun
    /\ Len(analysis.rows) < MaxRows
    /\ analysis' = [analysis EXCEPT !.rows =
          Append(@, Row(ex, LastDay + (IF nextDay THEN 1 ELSE 0),
                        cells[1], cells[2], Len(analysis.rows)))]
    /\ UNCHANGED <<muscle_status, backendVars, modalVars, chatVars, dbVars, renderVars, pageVars, feedbackVars,
                   historyVars, homeVars>>

\* The export, all required columns present, is handed to generate_profile.
run_generate_profile ==
    /\ analysis.result = NotRun
    /\ analysis' = [analysis EXCEPT !.result =
          generate_profile([columns |-> RequiredColumns, rows |-> analysis.rows])]
    /\ UNCHANGED <<muscle_status, backendVars, modalVars, chatVars, dbVars, renderVars, pageVars, feedbackVars,
                   historyVars, homeVars>>

\* The bands training status is checked against
Bands ==
    {OptimalBand, [lo |-> 10, hi |-> 20], [lo |-> 4, hi |-> 8],
     [lo |-> 8, hi |-> 8], [lo |-> 1, hi |-> 23]}

NoStatus == [count |-> 0, band |-> OptimalBand, status |-> None]

\* A muscle group with the weekly set count is classified against the band.
classify_training_status(count, band) ==
    /\ muscle_status' = [count |-> count, band |-> band,
                         status |-> TrainingStatus(count, band)]
    /\ UNCHANGED <<analysis, backendVars, modalVars, chatVars, dbVars, renderVars, pageVars, feedbackVars,
                   historyVars, homeVars>>

AggregatorInit ==
    /\ analysis = [rows |-> << >>, result |-> NotRun]
    /\ muscle_status = NoStatus

AggregatorNext ==
    \/ \E ex \in AnalysisExercises, cells \in AnalysisCells, nextDay \in BOOLEAN :
          csv_append_row(ex, cells, nextDay)
    \/ run_generate_profile

TrainingStatusNext ==
    \E count \in 0..MaxWeeklySets, band \in Bands : classify_training_status(count, band)

\* ===================================================================
\* Frontend: RoutinesHistoryPage, titles and "Add to chat"
\* ===================================================================

\* What GET /routines lists of a routine, without its id.  days_per_week is
\* << >> for null, focus_muscles << >> for an absent or empty list.
RoutineSummaries ==
    {[title |-> "Push Day", goal |-> "Build strength", days_per_week |-> <<3>>,
      focus_muscles |-> <<"Chest", "Arms">>,
      created_at |-> [date |-> "1/5/2026", time |-> "09:00"]],
     [title |-> "Push Day", goal |-> "Build strength", days_per_week |-> <<3>>,
      focus_muscles |-> <<"Chest", "Arms", "Back">>,
      created_at |-> [date |-> "1/5/2026", time |-> "18:00"]],
     [title |-> "Push Day", goal |-> "", days_per_week |-> << >>,
      focus_muscles |-> << >>,
      created_at |-> [date |-> "1/6/2026", time |-> "09:00"]],
     [title |-> "", goal |-> "", days_per_week |-> << >>,
      focus_muscles |-> << >>,
      created_at |-> [date |-> "1/6/2026", time |-> "09:00"]],
     [title |-> "Leg Day", goal |-> "Hypertrophy", days_per_week |-> <<4>>,
      focus_muscles |-> <<"Legs">>,
      created_at |-> [date |-> "1/5/2026", time |-> "09:00"]]}

\* The list the server answers with: n summaries, the i-th with the id ri
RoutineLists ==
    UNION {{[i \in 1..n |->
               [id |-> "r" \o ToString(i), title |-> f[i].title, goal |-> f[i].goal,
                days_per_week |-> f[i].days_per_week,
                focus_muscles |-> f[i].focus_muscles,
                created_at |-> f[i].created_at]] :
              f \in [1..n -> RoutineSummaries]} : n \in 0..MaxHistory}

NoRoutine ==
    [id |-> "", title |-> "", goal |-> "", days_per_week |-> << >>,
     focus_muscles |-> << >>, created_at |-> [date |-> "", time |-> ""]]

\* Array.prototype.join
RECURSIVE Join(_, _)
Join(seq, sep) ==
    IF seq = << >> THEN ""
    ELSE IF Len(seq) = 1 THEN seq[1]
    ELSE seq[1] \o sep \o Join(Tail(seq), sep)

\* Date.prototype.toLocaleDateString: the date, without the time of day
toLocaleDateString(created_at) == created_at.date

\* routine.title || "Generated Routine"
TitleOrDefault(routine) == IF routine.title = "" THEN "Generated Routine" ELSE routine.title

\* titleCounts[title]
titleCounts(list, title) ==
    Cardinality({i \in 1..Len(list) : TitleOrDefault(list[i]) = title})

\* formatContextTitle
formatContextTitle(list, routine) ==
    LET title == TitleOrDefault(routine)
        joined == Join(SubSeq(routine.focus_muscles, 1,
                              IF Len(routine.focus_muscles) < 2
                              THEN Len(routine.focus_muscles) ELSE 2), "/")
        muscles == IF joined = "" THEN "General" ELSE joined
        days == IF routine.days_per_week # << >>
                THEN ToString(routine.days_per_week[1]) \o "d/wk" ELSE "d/wk?"
        date == toLocaleDateString(routine.created_at)
    IN IF titleCounts(list, title) <= 1 THEN title
       ELSE title \o " · " \o muscles \o " · " \o days \o " · " \o date

\* What the user may have typed into the note
UserPrompts == {"", "  ", " swap the order "}

\* String.prototype.trim on the notes
Trim(str) ==
    CASE str = "  " -> ""
      [] str = " swap the order " -> "swap the order"
      [] OTHER -> str

\* Mutant: the note is stored as typed.
contextMessage_Untrimmed(routine, userPrompt) ==
    Join(<<"[[context:routine:" \o routine.id \o "]]",
           "Title: " \o TitleOrDefault(routine),
           "Goal: " \o (IF routine.goal = "" THEN "unspecified" ELSE routine.goal),
           "Days/Week: " \o (IF routine.days_per_week # << >>
                             THEN ToString(routine.days_per_week[1]) ELSE "unspecified"),
           "Focus: " \o (IF Len(routine.focus_muscles) > 0
                         THEN Join(routine.focus_muscles, ", ") ELSE "unspecified"),
           "[[/context]]",
           IF userPrompt = "" THEN "Use this routine as context." ELSE userPrompt>>, "\n")

\* handleAddToChat: the message made of the routine and the note
contextMessage(routine, userPrompt) ==
    LET focus == IF Len(routine.focus_muscles) > 0
                 THEN Join(routine.focus_muscles, ", ") ELSE "unspecified"
        days == IF routine.days_per_week # << >>
                THEN ToString(routine.days_per_week[1]) ELSE "unspecified"
        title == TitleOrDefault(routine)
        goal == IF routine.goal = "" THEN "unspecified" ELSE routine.goal
        prompt == IF Trim(userPrompt) = "" THEN "Use this routine as context."
                  ELSE Trim(userPrompt)
    IN Join(<<"[[context:routine:" \o routine.id \o "]]",
              "Title: " \o title, "Goal: " \o goal, "Days/Week: " \o days,
              "Focus: " \o focus, "[[/context]]", prompt>>, "\n")

PendingKey == "repsense_pending_chat_message"

\* localStorage.setItem
setItem(storage, key, value) == {kv \in storage : kv[1] # key} \cup {<<key, value>>}

\* getUserRoutines resolved: setRoutines(items), setLoading(false)
setRoutines(items) ==
    /\ history.loading
    /\ history' = [history EXCEPT !.routines = items, !.loading = FALSE]
    /\ UNCHANGED <<addCalls, localStorage>>
    /\ UNCHANGED <<backendVars, modalVars, chatVars, dbVars, renderVars, pageVars, feedbackVars, aggVars, homeVars>>

\* openAddToChat of the i-th routine of the list
openAddToChat(i) ==
    /\ history.location = "/routines" /\ ~history.loading
    /\ i \in 1..Len(history.routines)
    /\ history' = [history EXCEPT !.activeRoutine = history.routines[i],
                                  !.userPrompt = "", !.modalOpen = TRUE]
    /\ UNCHANGED <<addCalls, localStorage>>
    /\ UNCHANGED <<backendVars, modalVars, chatVars, dbVars, renderVars, pageVars, feedbackVars, aggVars, homeVars>>

\* The textarea's onChange
setUserPrompt(text) ==
    /\ history.location = "/routines" /\ history.modalOpen
    /\ text # history.userPrompt
    /\ history' = [history EXCEPT !.userPrompt = text]
    /\ UNCHANGED <<addCalls, localStorage>>
    /\ UNCHANGED <<backendVars, modalVars, chatVars, dbVars, renderVars, pageVars, feedbackVars, aggVars, homeVars>>

\* Cancel, or the modal's onClose
closeAddToChat ==
    /\ history.location = "/routines" /\ history.modalOpen
    /\ history' = [history EXCEPT !.modalOpen = FALSE]
    /\ UNCHANGED <<addCalls, localStorage>>
    /\ UNCHANGED <<backendVars, modalVars, chatVars, dbVars, renderVars, pageVars, feedbackVars, aggVars, homeVars>>

\* handleAddToChat up to the await of isLoggedIn: the call keeps the
\* activeRoutine and the userPrompt of the render it was made in
handleAddToChat ==
    /\ history.location = "/routines" /\ history.modalOpen
    /\ history.activeRoutine # NoRoutine
    /\ Len(addCalls) < MaxAddCalls
    /\ addCalls' = Append(addCalls, [activeRoutine |-> history.activeRoutine,
                                     userPrompt |-> history.userPrompt,
                                     pc |-> "isLoggedIn", loggedIn |-> "pending"])
    /\ UNCHANGED <<history, localStorage>>
    /\ UNCHANGED <<backendVars, modalVars, chatVars, dbVars, renderVars, pageVars, feedbackVars, aggVars, homeVars>>

\* handleAddToChat after the login check (r = "throws": getMagic or
\* isLoggedIn threw)
handleAddToChat_resume(k, r) ==
    /\ addCalls[k].pc = "isLoggedIn"
    /\ addCalls' = [addCalls EXCEPT ![k] = [@ EXCEPT !.pc = "done", !.loggedIn = r]]
    /\ IF r = "true"
       THEN /\ localStorage' = setItem(localStorage, PendingKey,
                                       contextMessage(addCalls[k].activeRoutine,
                                                      addCalls[k].userPrompt))
            /\ history' = [history EXCEPT !.modalOpen = FALSE, !.location = "/"]
       ELSE /\ localStorage' = localStorage
            /\ history' = [history EXCEPT !.location = "/"]
    /\ UNCHANGED <<backendVars, modalVars, chatVars, dbVars, renderVars, pageVars, feedbackVars, aggVars, homeVars>>

HistoryInit ==
    /\ history = [routines |-> << >>, loading |-> TRUE, modalOpen |-> FALSE,
                  activeRoutine |-> NoRoutine, userPrompt |-> "",
                  location |-> "/routines"]
    /\ addCalls = << >>
    /\ localStorage = {}

HistoryNext ==
    \/ \E items \in RoutineLists : setRoutines(items)
    \/ \E i \in 1..MaxHistory : openAddToChat(i)
    \/ \E text \in UserPrompts : setUserPrompt(text)
    \/ closeAddToChat
    \/ handleAddToChat
    \/ \E k \in 1..Len(addCalls), r \in LoginOutcomes : handleAddToChat_resume(k, r)

\* ===================================================================
\* Frontend: Home, its views and the login
\* ===================================================================

OnboardedKey == "repsense_onboarded"

\* localStorage.getItem("repsense_onboarded"), as a truth value
hasOnboarded == \E kv \in localStorage : kv[1] = OnboardedKey

\* What magic.user.getInfo() can end with
InfoOutcomes == {"info", "throws"}
\* What magic.auth.loginWithEmailOTP() can end with
OtpOutcomes == {"ok", "throws"}

\* The state of Home and LoginScreen after the first render; the effect has
\* called checkAuth
HomeMounted(visits) ==
    [view |-> "login", isCheckingAuth |-> TRUE, userEmail |-> "", csvData |-> FALSE,
     checkAuth |-> [pc |-> "isLoggedIn", loggedIn |-> "pending"],
     isLoading |-> FALSE, logout |-> "idle", visits |-> visits]

HomeShowsLogin == ~home.isCheckingAuth /\ home.view = "login"

\* Mutant: checkAuth goes on to getInfo whatever isLoggedIn answered.
checkAuth_isLoggedIn_Unchecked(r) ==
    /\ home.checkAuth.pc = "isLoggedIn"
    /\ home' = IF r # "throws"
               THEN [home EXCEPT !.checkAuth = [pc |-> "getInfo", loggedIn |-> r]]
               ELSE [home EXCEPT !.checkAuth = [pc |-> "done", loggedIn |-> r],
                                 !.isCheckingAuth = FALSE]
    /\ UNCHANGED <<logins, historyVars>>
    /\ UNCHANGED <<backendVars, modalVars, chatVars, dbVars, renderVars, pageVars, feedbackVars, aggVars>>

\* checkAuth after the await of isLoggedIn: on to getInfo when logged in,
\* else (not logged in, or the call threw) the finally
checkAuth_isLoggedIn(r) ==
    /\ home.checkAuth.pc = "isLoggedIn"
    /\ home' = IF r = "true"
               THEN [home EXCEPT !.checkAuth = [pc |-> "getInfo", loggedIn |-> r]]
               ELSE [home EXCEPT !.checkAuth = [pc |-> "done", loggedIn |-> r],
                                 !.isCheckingAuth = FALSE]
    /\ UNCHANGED <<logins, historyVars>>
    /\ UNCHANGED <<backendVars, modalVars, chatVars, dbVars, renderVars, pageVars, feedbackVars, aggVars>>

\* checkAuth after the await of getInfo
checkAuth_getInfo(r) ==
    /\ home.checkAuth.pc = "getInfo"
    /\ home' = IF r = "info"
               THEN [home EXCEPT !.checkAuth.pc = "done", !.isCheckingAuth = FALSE,
                                 !.userEmail = "user@example.com",
                                 !.view = IF hasOnboarded THEN "chat" ELSE "upload"]
               ELSE [home EXCEPT !.checkAuth.pc = "done", !.isCheckingAuth = FALSE]
    /\ UNCHANGED <<logins, historyVars>>
    /\ UNCHANGED <<backendVars, modalVars, chatVars, dbVars, renderVars, pageVars, feedbackVars, aggVars>>

\* LoginScreen.handleSubmit up to the await of loginWithEmailOTP
handleSubmit ==
    /\ HomeShowsLogin /\ ~home.isLoading
    /\ Len(logins) < MaxLogins
    /\ home' = [home EXCEPT !.isLoading = TRUE]
    /\ logins' = Append(logins, [pc |-> "loginWithEmailOTP", otp |-> "pending"])
    /\ UNCHANGED historyVars
    /\ UNCHANGED <<backendVars, modalVars, chatVars, dbVars, renderVars, pageVars, feedbackVars, aggVars>>

\* handleSubmit after the await: onLogin() on success, which runs handleLogin
\* up to its await of getInfo; finally setIsLoading(false)
handleSubmit_resume(k, r) ==
    /\ logins[k].pc = "loginWithEmailOTP"
    /\ logins' = [logins EXCEPT ![k] =
          [pc |-> IF r = "ok" THEN "getInfo" ELSE "failed", otp |-> r]]
    /\ home' = [home EXCEPT !.isLoading = FALSE]
    /\ UNCHANGED historyVars
    /\ UNCHANGED <<backendVars, modalVars, chatVars, dbVars, renderVars, pageVars, feedbackVars, aggVars>>

\* handleLogin after the await of getInfo
handleLogin_resume(k, r) ==
    /\ logins[k].pc = "getInfo"
    /\ logins' = [logins EXCEPT ![k].pc = "done"]
    /\ home' = [home EXCEPT
          !.userEmail = IF r = "info" THEN "user@example.com" ELSE @,
          !.view = IF hasOnboarded THEN "chat" ELSE "upload"]
    /\ UNCHANGED historyVars
    /\ UNCHANGED <<backendVars, modalVars, chatVars, dbVars, renderVars, pageVars, feedbackVars, aggVars>>

\* handleCSVContinue (UploadScreen's onContinue)
handleCSVContinue ==
    /\ ~home.isCheckingAuth /\ home.view = "upload"
    /\ home' = [home EXCEPT !.csvData = TRUE, !.view = "focus"]
    /\ UNCHANGED <<logins, historyVars>>
    /\ UNCHANGED <<backendVars, modalVars, chatVars, dbVars, renderVars, pageVars, feedbackVars, aggVars>>

\* handleBack (FocusScreen's onBack; on the upload view it does nothing)
handleBack ==
    /\ ~home.isCheckingAuth /\ home.view = "focus" /\ home.csvData
    /\ home' = [home EXCEPT !.view = "upload"]
    /\ UNCHANGED <<logins, historyVars>>
    /\ UNCHANGED <<backendVars, modalVars, chatVars, dbVars, renderVars, pageVars, feedbackVars, aggVars>>

\* handleStartTraining (FocusScreen's onStartTraining)
handleStartTraining ==
    /\ ~home.isCheckingAuth /\ home.view = "focus" /\ home.csvData
    /\ localStorage' = setItem(localStorage, OnboardedKey, "true")
    /\ home' = [home EXCEPT !.view = "chat"]
    /\ UNCHANGED <<logins, history, addCalls>>
    /\ UNCHANGED <<backendVars, modalVars, chatVars, dbVars, renderVars, pageVars, feedbackVars, aggVars>>

\* handleLogout (ChatLayout's onLogout) up to the await of logout
handleLogout ==
    /\ ~home.isCheckingAuth /\ home.view = "chat"
    /\ home.logout = "idle"
    /\ home' = [home EXCEPT !.logout = "pending"]
    /\ UNCHANGED <<logins, historyVars>>
    /\ UNCHANGED <<backendVars, modalVars, chatVars, dbVars, renderVars, pageVars, feedbackVars, aggVars>>

\* handleLogout after the await, whether logout resolved or threw
handleLogout_resume ==
    /\ home.logout = "pending"
    /\ home' = [home EXCEPT !.logout = "idle", !.userEmail = "", !.view = "login"]
    /\ UNCHANGED <<logins, historyVars>>
    /\ UNCHANGED <<backendVars, modalVars, chatVars, dbVars, renderVars, pageVars, feedbackVars, aggVars>>

\* The page is loaded again: a new Home, the calls of the old one are gone
Home_reload ==
    /\ home.visits < MaxVisits
    /\ home' = HomeMounted(home.visits + 1)
    /\ logins' = << >>
    /\ UNCHANGED historyVars
    /\ UNCHANGED <<backendVars, modalVars, chatVars, dbVars, renderVars, pageVars, feedbackVars, aggVars>>

HomeInit == home = HomeMounted(1) /\ logins = << >>

HomeNext ==
    \/ \E r \in LoginOutcomes : checkAuth_isLoggedIn(r)
    \/ \E r \in InfoOutcomes : checkAuth_getInfo(r)
    \/ handleSubmit
    \/ \E k \in 1..Len(logins), r \in OtpOutcomes : handleSubmit_resume(k, r)
    \/ \E k \in 1..Len(logins), r \in InfoOutcomes : handleLogin_resume(k, r)
    \/ handleCSVContinue
    \/ handleBack
    \/ handleStartTraining
    \/ handleLogout
    \/ handleLogout_resume
    \/ Home_reload

(***************************************************************************)
(* The relational store: the initial schema, applying it, and the reset.   *)
(* A database is its tables (name -> the primary keys of its rows) and its *)
(* indexes (name and table).                                               *)
(***************************************************************************)

\* The tables of the initial schema, in the order it creates them
TableNames ==
    <<"routines", "user_csvs", "user_profiles", "chat_sessions",
      "chat_messages", "episodic_memories">>

\* The statements of the initial schema, in order
InitialSchema ==
    << [kind |-> "table", name |-> "routines", on |-> "routines"],
       [kind |-> "table", name |-> "user_csvs", on |-> "user_csvs"],
       [kind |-> "table", name |-> "user_profiles", on |-> "user_profiles"],
       [kind |-> "table", name |-> "chat_sessions", on |-> "chat_sessions"],
       [kind |-> "table", name |-> "chat_messages", on |-> "chat_messages"],
       [kind |-> "index", name |-> "idx_messages_routine_user", on |-> "chat_messages"],
       [kind |-> "table", name |-> "episodic_memories", on |-> "episodic_memories"],
       [kind |-> "index", name |-> "idx_episodic_user_created", on |-> "episodic_memories"],
       [kind |-> "index", name |-> "idx_episodic_routine", on |-> "episodic_memories"] >>

\* The primary keys rows are inserted with
RowIds == 1..MaxDbRows

\* The number of rows in the tables ts of database d
RECURSIVE RowCount(_, _)
RowCount(d, ts) ==
    IF ts = {} THEN 0
    ELSE LET t == CHOOSE u \in ts : TRUE
         IN Cardinality(d.tables[t]) + RowCount(d, ts \ {t})

\* Mutant: CREATE TABLE that replaces a table of the same name.
create_table_Replace(d, t) ==
    [d EXCEPT !.tables = [u \in DOMAIN d.tables \cup {t} |->
                             IF u = t THEN {} ELSE d.tables[u]]]

\* CREATE TABLE IF NOT EXISTS t
create_table_if_not_exists(d, t) ==
    IF t \in DOMAIN d.tables THEN d
    ELSE [d EXCEPT !.tables = [u \in DOMAIN d.tables \cup {t} |->
                                  IF u = t THEN {} ELSE d.tables[u]]]

\* CREATE INDEX IF NOT EXISTS idx ON t: nothing when an index of that name
\* exists; the statement fails, changing nothing, when the table is missing
create_index_if_not_exists(d, idx, t) ==
    IF \E i \in d.indexes : i.name = idx THEN d
    ELSE IF t \notin DOMAIN d.tables THEN d
    ELSE [d EXCEPT !.indexes = @ \cup {[name |-> idx, on |-> t]}]

\* One statement of a migration
execute(d, stmt) ==
    IF stmt.kind = "table" THEN create_table_if_not_exists(d, stmt.name)
    ELSE create_index_if_not_exists(d, stmt.name, stmt.on)

\* The statements of a migration, one after the other
RECURSIVE executescript(_, _)
executescript(d, stmts) ==
    IF stmts = << >> THEN d
    ELSE executescript(execute(d, Head(stmts)), Tail(stmts))

\* Applying the migrations: the initial schema
apply_migrations(d) == executescript(d, InitialSchema)

\* DROP TABLE of every table; a table's indexes go with it
drop_all_tables(d) ==
    [d EXCEPT !.tables = [u \in {} |-> {}], !.indexes = {}]

\* The reset script: drop all tables, re-apply the migrations
reset_db(d) == apply_migrations(drop_all_tables(d))

\* The tables and indexes of the initial schema exist in d
SchemaExists(d) ==
    /\ \A k \in 1..Len(InitialSchema) :
          IF InitialSchema[k].kind = "table"
          THEN InitialSchema[k].name \in DOMAIN d.tables
          ELSE \E i \in d.indexes : i.name = InitialSchema[k].name

\* The migrations are applied to the database as it is
run_migrations ==
    /\ db' = [apply_migrations(db) EXCEPT !.last = "migrate"]
    /\ UNCHANGED <<backendVars, modalVars, chatVars, pageVars, feedbackVars,
                   aggVars, historyVars, homeVars, renderVars>>

\* A row with primary key id is inserted into table t
insert_row(t, id) ==
    /\ t \in DOMAIN db.tables
    /\ id \notin db.tables[t]
    /\ RowCount(db, DOMAIN db.tables) < MaxDbRows
    /\ db' = [db EXCEPT !.tables[t] = @ \cup {id}, !.last = "insert"]
    /\ UNCHANGED <<backendVars, modalVars, chatVars, pageVars, feedbackVars,
                   aggVars, historyVars, homeVars, renderVars>>

\* python3 -m backend.storage.reset_db
run_reset_db ==
    /\ db.resets < MaxResets
    /\ db' = [reset_db(db) EXCEPT !.last = "reset", !.resets = @ + 1]
    /\ UNCHANGED <<backendVars, modalVars, chatVars, pageVars, feedbackVars,
                   aggVars, historyVars, homeVars, renderVars>>

\* A new database: no table, no index
DbInit ==
    db = [tables |-> [u \in {} |-> {}], indexes |-> {}, last |-> "none", resets |-> 0]

DbNext ==
    \/ run_migrations
    \/ \E k \in 1..Len(TableNames), id \in RowIds : insert_row(TableNames[k], id)
    \/ run_reset_db

(***************************************************************************)
(* ChatScreen: rendering the content of a message.  A content is the       *)
(* sequence of its characters.                                             *)
(***************************************************************************)

\* The characters of \w and "-"
WordChars ==
    {"a", "b", "c", "d", "e", "f", "g", "h", "i", "j", "k", "l", "m", "n",
     "o", "p", "q", "r", "s", "t", "u", "v", "w", "x", "y", "z",
     "A", "B", "C", "D", "E", "F", "G", "H", "I", "J", "K", "L", "M", "N",
     "O", "P", "Q", "R", "S", "T", "U", "V", "W", "X", "Y", "Z",
     "0", "1", "2", "3", "4", "5", "6", "7", "8", "9", "_", "-"}

\* "[routine:"
TokenOpen == <<"[", "r", "o", "u", "t", "i", "n", "e", ":">>

\* "/routine/"
RoutinePath == <<"/", "r", "o", "u", "t", "i", "n", "e", "/">>

\* "routine-gen-"
RoutineGen == <<"r", "o", "u", "t", "i", "n", "e", "-", "g", "e", "n", "-">>

\* content has the characters of s from position i on
StartsWithAt(content, i, s) ==
    /\ i + Len(s) - 1 <= Len(content)
    /\ \A k \in 1..Len(s) : content[i + k - 1] = s[k]

\* [\w-]+ from position j: the number of characters it takes
RECURSIVE WordRun(_, _)
WordRun(content, j) ==
    IF j <= Len(content) /\ content[j] \in WordChars
    THEN 1 + WordRun(content, j + 1)
    ELSE 0

\* \[routine:[\w-]+\] at position i: the length of the id, 0 without a match
MatchAt(content, i) ==
    IF StartsWithAt(content, i, TokenOpen)
    THEN LET j == i + Len(TokenOpen)
             w == WordRun(content, j)
         IN IF w > 0 /\ j + w <= Len(content) /\ content[j + w] = "]"
            THEN w ELSE 0
    ELSE 0

\* The part rendered for a text outside a token, and for a token
Span(text) == [kind |-> "span", text |-> text, href |-> << >>]
Link(id) == [kind |-> "Link", text |-> <<"View Routine">>, href |-> RoutinePath \o id]

\* renderMessageContent: the content split at its [routine:<id>] tokens; a
\* token becomes a link to /routine/<id>, every other part a span
RECURSIVE renderMessageContent(_)
renderMessageContent(content) ==
    LET starts == {i \in 1..Len(content) : MatchAt(content, i) > 0}
    IN IF starts = {} THEN << Span(content) >>
       ELSE LET i == CHOOSE p \in starts : \A q \in starts : p <= q
                j == i + Len(TokenOpen)
                w == MatchAt(content, i)
            IN << Span(SubSeq(content, 1, i - 1)),
                  Link(SubSeq(content, j, j + w - 1)) >>
               \o renderMessageContent(SubSeq(content, j + w + 1, Len(content)))

\* The routine ids the server generates
RoutineIdTexts == {<<"1">>, <<"4", "2">>, <<"a", "7", "-", "c", "3">>}

\* Advice texts: plain, with a token as in the mock replies, with a token
\* that has no id
AdviceTexts ==
    { <<"O", "k">>,
      <<"S", "e", "e", " ">> \o TokenOpen \o <<"1", "]", ".">>,
      TokenOpen \o <<"]">> }

\* The bodies POST /chat/message answers with
ChatReplies ==
    {[type |-> "routine", text |-> RoutineGen \o id] : id \in RoutineIdTexts}
    \cup {[type |-> "chat", text |-> t] : t \in AdviceTexts}

\* The message list as ChatScreen renders it
RenderMessages(replies) ==
    [i \in 1..Len(replies) |-> renderMessageContent(replies[i].text)]

\* handleSendMessage appends the text of the reply as an assistant message,
\* and ChatScreen renders the list
reply_rendered(res) ==
    /\ Len(screen.replies) < MaxReplies
    /\ screen' = [replies |-> Append(screen.replies, res),
                  rendered |-> RenderMessages(Append(screen.replies, res))]
    /\ UNCHANGED <<backendVars, modalVars, chatVars, pageVars, feedbackVars,
                   aggVars, historyVars, homeVars, dbVars>>

\* New chat: the list is emptied
render_new_chat ==
    /\ screen.replies # << >>
    /\ screen' = [replies |-> << >>, rendered |-> << >>]
    /\ UNCHANGED <<backendVars, modalVars, chatVars, pageVars, feedbackVars,
                   aggVars, historyVars, homeVars, dbVars>>

RenderInit == screen = [replies |-> << >>, rendered |-> << >>]

RenderNext ==
    \/ \E res \in ChatReplies : reply_rendered(res)
    \/ render_new_chat

BackendInit ==
    /\ user_profiles = {}
    /\ uploads = << >>
    /\ chat_turn = NoTurn

\* The upload handler alone
UploadsNext ==
    \/ \E u \in Users, f \in CsvNames : POST_profile_upload(u, f)
    \/ \E i \in 1..Len(uploads) : profile_upload_generate(i)
    \/ \E i \in 1..Len(uploads) : profile_upload_store(i)

\* Uploads and chat turns
BackendNext ==
    \/ \E u \in Users, f \in CsvNames :
          Len(uploads) < MaxChatUploads /\ POST_profile_upload(u, f)
    \/ \E i \in 1..Len(uploads) : profile_upload_generate(i)
    \/ \E i \in 1..Len(uploads) : profile_upload_store(i)
    \/ \E u \in Users, q \in Queries, c \in ClassifyOutcomes, g \in GenerateOutcomes :
          POST_chat_message(u, q, c, g)

Init ==
    /\ BackendInit /\ ModalInit /\ ChatInit /\ PagesInit /\ FeedbackInit
    /\ AggregatorInit /\ HistoryInit /\ HomeInit /\ DbInit
    /\ RenderInit

SpecUploads == Init /\ [][UploadsNext]_vars
SpecBackend == Init /\ [][BackendNext]_vars
SpecModal == Init /\ [][ModalNext]_vars
SpecChat == Init /\ [][ChatNext]_vars
SpecPages == Init /\ [][PagesNext]_vars
SpecFeedback == Init /\ [][FeedbackNext]_vars
SpecAggregator == Init /\ [][AggregatorNext]_vars
SpecTrainingStatus == Init /\ [][TrainingStatusNext]_vars
SpecHistory == Init /\ [][HistoryNext]_vars
SpecHome == Init /\ [][HomeNext]_vars
SpecDb == Init /\ [][DbNext]_vars
SpecRender == Init /\ [][RenderNext]_vars
FairSpecChat == SpecChat /\ ChatFairness

\* ===================================================================
\* Claims
\* ===================================================================

StoredUploadsOf(u) ==
    {i \in 1..Len(uploads) : uploads[i].user_id = u /\ uploads[i].pc = "stored"}

LastStoredOf(u) ==
    CHOOSE i \in StoredUploadsOf(u) :
        \A j \in StoredUploadsOf(u) : uploads[j].generated_at <= uploads[i].generated_at

\* C1: after any sequence of uploads of a user, overlapping ones included, the
\* store holds exactly one profile row for the user, and it is in full the
\* profile generated from the upload that wrote last: never a merge.  A user
\* none of whose uploads was stored has no row.
C1_OneProfileLastWriteWins ==
    \A u \in Users :
        IF StoredUploadsOf(u) = {}
        THEN ProfileRowsOf(u) = {}
        ELSE ProfileRowsOf(u) =
               {[user_id |-> u,
                 profile_json |->
                    ProfileJson(generate_profile(CsvFiles[uploads[LastStoredOf(u)].file])),
                 generated_at |-> uploads[LastStoredOf(u)].generated_at]}

\* Two uploads of one user with different profiles overlapped: the one that
\* arrived first wrote last.
C1_Witness ==
    \E i, j \in 1..Len(uploads) :
        /\ i < j
        /\ uploads[i].user_id = uploads[j].user_id
        /\ uploads[i].pc = "stored" /\ uploads[j].pc = "stored"
        /\ uploads[i].profile # uploads[j].profile
        /\ uploads[i].generated_at > uploads[j].generated_at

Malformed(i) == ~HasRequiredColumns(CsvFiles[uploads[i].file])

\* C7: a CSV lacking a required column fails with MalformedInput; no profile,
\* not even a partial one, is produced or stored, and the stored profiles are
\* what they were.
C7_MalformedInputNoProfile ==
    /\ [](\A i \in 1..Len(uploads) :
             Malformed(i) =>
                /\ uploads[i].pc \in {"received", "failed"}
                /\ uploads[i].profile = NoProfile
                /\ uploads[i].generated_at = 0
                /\ uploads[i].pc = "failed" => uploads[i].error = "MalformedInput")
    /\ [][\A i \in 1..Len(uploads) :
             (Malformed(i) /\ uploads'[i] # uploads[i]) =>
                user_profiles' = user_profiles]_vars

\* An upload without the reps column failed for a user who has a stored profile.
C7_Witness ==
    \E i, j \in 1..Len(uploads) :
        /\ j < i
        /\ uploads[i].user_id = uploads[j].user_id
        /\ uploads[j].pc = "stored"
        /\ Malformed(i) /\ uploads[i].pc = "failed"
        /\ ProfileRowsOf(uploads[i].user_id) # {}

C6_Original ==
    (/\ modal.file # None
     /\ \A i \in 1..Len(modalReqs) : modalReqs[i].pc = "done"
     /\ uploadCSV(modalReqs[Len(modalReqs)].status).threw)
    => /\ modal.error = uploadCSV(modalReqs[Len(modalReqs)].status).message
       /\ ~modal.uploadDone
       /\ ~modal.isParsing

\* C5: whether sendMessage resolves or rejects, the continuation of
\* handleSendMessage appends exactly one assistant message (the reply text, or
\* "Something went wrong. Please try again." on failure) and clears
\* isReplying; the user message was appended when the message was sent; and
\* isReplying always returns to false, so a further message can be sent.
C5_FailedChatSurfaced ==
    /\ [][\A n \in 1..Len(sends) :
             (sends[n].pc = "responded" /\ sends'[n].pc = "done") =>
                /\ chat'.messages =
                      Append(chat.messages,
                             ChatMsg("assistant",
                                     IF sends[n].outcome \in {"chat", "routine"}
                                     THEN sendMessage(n, sends[n].outcome).text
                                     ELSE ErrorText))
                /\ ~chat'.isReplying]_vars
    /\ [][Len(sends') = Len(sends) + 1 =>
             /\ chat'.messages =
                   Append(chat.messages, ChatMsg("user", sends'[Len(sends')].content))
             /\ chat'.isReplying]_vars
    /\ (chat.isReplying ~> ~chat.isReplying)

\* A request failed and was handled: the list ends with the user message and
\* the failure message, and the layout is not replying.
C5_Witness ==
    \E n \in 1..Len(sends) :
        /\ sends[n].pc = "done"
        /\ sends[n].outcome = "error"
        /\ Len(chat.messages) >= 2
        /\ chat.messages[Len(chat.messages)] = ChatMsg("assistant", ErrorText)
        /\ chat.messages[Len(chat.messages) - 1] = ChatMsg("user", sends[n].content)
        /\ ~chat.isReplying

\* C3: when GET /routines/{id} or GET /routines answers 401 or 403, the fetch
\* function raises the 'auth' error and the page finishes loading in the auth
\* error state, showing "Please log in ..." and no routine content.
C3_AuthErrorState ==
    \A p \in PageNames :
        (pages[p].pc = "done" /\ pages[p].status \in {"401", "403"}) =>
            /\ getRoutine(pages[p].status) = Thrown("auth")
            /\ getUserRoutines(pages[p].status) = Thrown("auth")
            /\ pages[p].error = "auth"
            /\ ~pages[p].loading
            /\ PageView(p) = IF p = "RoutinePage"
                             THEN "Please log in to view this routine."
                             ELSE "Please log in to view your routines."

\* Both pages got a 401 or a 403, one of them for a request that carried a
\* token, and have handled it.
C3_Witness ==
    /\ pages["RoutinePage"].pc = "done"
    /\ pages["RoutinePage"].status = "403"
    /\ pages["RoutinePage"].headers = "Bearer"
    /\ pages["RoutinesHistoryPage"].pc = "done"
    /\ pages["RoutinesHistoryPage"].status = "401"

\* C4: a routine fetch carries 'Authorization: Bearer <token>' if and only if
\* Magic reported the user logged in and an ID token was obtained on the first
\* attempt or on the single retry; in every other case, a throwing Magic call
\* included, getAuthHeaders does not throw and the request is sent without
\* the header.
C4_BearerIffToken ==
    \A p \in PageNames :
        LET m == pages[p].magic
            obtained ==
                /\ m["isLoggedIn"] = "true"
                /\ \/ m["getIdToken"] = "token"
                   \/ m["getIdToken"] = "empty" /\ m["getIdToken_retry"] = "token"
        IN /\ pages[p].pc # "rejected"
           /\ pages[p].pc \in {"fetch", "responded", "done"} =>
                 /\ pages[p].headers = IF obtained THEN "Bearer" ELSE "none"
                 /\ pages[p].pc # "fetch" => pages[p].status # "unsent"
           /\ pages[p].pc \in AuthPcs => pages[p].headers = "unset"

\* One request went out with a token obtained on the retry, the other went
\* out without the header after a Magic call threw.
C4_Witness ==
    /\ pages["RoutinePage"].pc = "responded"
    /\ pages["RoutinePage"].magic["getIdToken"] = "empty"
    /\ pages["RoutinePage"].magic["getIdToken_retry"] = "token"
    /\ pages["RoutinePage"].headers = "Bearer"
    /\ pages["RoutinesHistoryPage"].pc = "responded"
    /\ pages["RoutinesHistoryPage"].magic["getIdToken"] = "throws"
    /\ pages["RoutinesHistoryPage"].headers = "none"

C11_FiveMostRecentOfUser ==
    [][ (~feedback.pending /\ feedback'.pending /\ feedback'.selected # 0) =>
          LET s == feedback'.selected
              u == feedback'.user_id
          IN /\ s \in 1..Len(routines)
             /\ routines[s].user_id = u
             /\ Cardinality({j \in 1..Len(routines) :
                               routines[j].user_id = u /\ j > s}) < 5
      ]_vars

\* A feedback turn selected a routine of a user who has more than five, the
\* oldest of which was no candidate.
C11_Witness ==
    /\ feedback.pending
    /\ feedback.selected # 0
    /\ feedback.candidates = rank_routine_candidates(feedback.user_id)
    /\ Cardinality(RoutineIdsOf(feedback.user_id)) > 5
    /\ Cardinality(feedback.candidates) = 5

\* C12: rows whose weight or reps is not numeric are skipped and counted,
\* never failing the upload: the profile generated from a CSV equals the
\* profile generated from the CSV without those rows, and the warning count
\* is the number of rows skipped.
C12_BadRowsSkippedAndCounted ==
    analysis.result # NotRun =>
        LET kept == SelectSeq(analysis.rows,
                              LAMBDA r : r.weight_kg.isnum /\ r.reps.isnum)
            clean == generate_profile([columns |-> RequiredColumns, rows |-> kept])
        IN /\ analysis.result.ok
           /\ analysis.result.exercises = clean.exercises
           /\ analysis.result.muscles = clean.muscles
           /\ analysis.result.warnings = Len(analysis.rows) - Len(kept)
           /\ clean.warnings = 0

\* A profile was generated from a CSV with a row with text for the reps, a
\* row with text for the weight and a good row after them.
C12_Witness ==
    /\ analysis.result # NotRun
    /\ analysis.result.warnings = 2
    /\ Len(analysis.rows) = 3
    /\ ~analysis.rows[1].reps.isnum
    /\ ~analysis.rows[2].weight_kg.isnum
    /\ analysis.result.exercises # {}

\* C13: the training status of a muscle group follows from its weekly set
\* count and the band alone: undertrained below the band's lower bound,
\* optimal inside the band, bounds included, high_volume above it; exactly
\* one of the three for every count; 4 weekly sets against 6-12 is
\* undertrained.
C13_TrainingStatusByBand ==
    muscle_status.status # None =>
        LET c == muscle_status.count
            b == muscle_status.band
        IN /\ muscle_status.status \in {"undertrained", "optimal", "high_volume"}
           /\ muscle_status.status = "undertrained" <=> c < b.lo
           /\ muscle_status.status = "optimal" <=> (b.lo <= c /\ c <= b.hi)
           /\ muscle_status.status = "high_volume" <=> c > b.hi
           /\ (c = 4 /\ b = [lo |-> 6, hi |-> 12]) =>
                 muscle_status.status = "undertrained"

\* 4 weekly sets were classified against the 6-12 band.
C13_Witness ==
    /\ muscle_status.status = "undertrained"
    /\ muscle_status.count = 4
    /\ muscle_status.band = [lo |-> 6, hi |-> 12]

\* C14: the estimated one-rep max of a set is weight x (1 + reps/30), to the
\* nearest hundredth: 116.67 for weight 100 and reps 5; the estimated 1RM an
\* exercise is reported with is that of one of its sets.
C14_Estimated1RM ==
    analysis.result # NotRun =>
        LET good == {i \in 1..Len(analysis.rows) :
                        analysis.rows[i].weight_kg.isnum /\ analysis.rows[i].reps.isnum}
            w(i) == analysis.rows[i].weight_kg.v
            r(i) == analysis.rows[i].reps.v
            \* 30 x (value in hundredths) against 30 x 100 x weight x (1 + reps/30)
            close(e, i) ==
                /\ 30 * e - 100 * w(i) * (30 + r(i)) <= 15
                /\ 100 * w(i) * (30 + r(i)) - 30 * e <= 15
        IN /\ \A i \in good : close(Estimated1RM(w(i), r(i)), i)
           /\ \A i \in good : (w(i) = 100 /\ r(i) = 5) =>
                 Estimated1RM(w(i), r(i)) = 11667
           /\ \A st \in analysis.result.exercises :
                 \E i \in good :
                    /\ analysis.rows[i].exercise_title = st.name
                    /\ close(st.estimated_1rm, i)

\* A profile reports 116.67 for an exercise with a set of 5 reps at 100.
C14_Witness ==
    /\ analysis.result # NotRun
    /\ \E st \in analysis.result.exercises :
          /\ st.estimated_1rm = 11667
          /\ \E i \in 1..Len(analysis.rows) :
                /\ analysis.rows[i].exercise_title = st.name
                /\ analysis.rows[i].weight_kg = Num(100)
                /\ analysis.rows[i].reps = Num(5)

\* C15: aggregation of an input with no workout sets (no rows, or no row
\* that parses) does not fail and returns the empty profile: no exercise
\* statistics, no muscle statistics.
C15_EmptyInputEmptyProfile ==
    (/\ analysis.result # NotRun
     /\ \A i \in 1..Len(analysis.rows) :
           ~(analysis.rows[i].weight_kg.isnum /\ analysis.rows[i].reps.isnum))
    => /\ analysis.result.ok
       /\ analysis.result.error = None
       /\ analysis.result.exercises = {}
       /\ analysis.result.muscles = {}
       /\ Aggregate(<< >>) = {}
       /\ AggregateMuscles(<< >>) = {}

\* A profile was generated from a CSV with the header and no rows.
C15_Witness ==
    /\ analysis.result # NotRun
    /\ analysis.rows = << >>
    /\ analysis.result.ok

\* Sum, over the pairs (d, e) in P of an earlier and a later session, of the
\* distance of their positions in the window W times the rise of estimated
\* 1RM from d to e: the least-squares slope up to a positive factor.
RECURSIVE PairwiseRise(_, _, _, _)
PairwiseRise(sets, ex, W, P) ==
    IF P = {} THEN 0
    ELSE LET p == CHOOSE x \in P : TRUE
             apart == Cardinality({d \in W : p[1] <= d /\ d < p[2]})
         IN apart * (SessionE1RM(sets, ex, p[2]) - SessionE1RM(sets, ex, p[1]))
            + PairwiseRise(sets, ex, W, P \ {p})

\* C16: an exercise with fewer sessions than the minimum-session threshold
\* has the trend "insufficient data"; every other exercise has exactly one of
\* up, down, flat: the sign of the slope of its sessions' estimated 1RM over
\* the last N sessions.
C16_TrendSignOfSlope ==
    analysis.result # NotRun =>
        \A st \in analysis.result.exercises :
            LET sets == Normalize(analysis.rows)
                days == {analysis.rows[i].start_time :
                           i \in {j \in 1..Len(analysis.rows) :
                                    /\ analysis.rows[j].exercise_title = st.name
                                    /\ analysis.rows[j].weight_kg.isnum
                                    /\ analysis.rows[j].reps.isnum}}
                last == {d \in days : Cardinality({e \in days : e > d}) < TrendWindow}
                y(d) == SessionE1RM(sets, st.name, d)
                rising == {p \in last \X last : p[1] < p[2] /\ y(p[1]) < y(p[2])}
                falling == {p \in last \X last : p[1] < p[2] /\ y(p[1]) > y(p[2])}
            IN IF Cardinality(days) < MinTrendSessions
               THEN st.trend = "insufficient data"
               ELSE /\ st.trend \in {"up", "down", "flat"}
                    \* with every later session at or above every earlier one
                    \* the slope is not negative, and positive if one is above
                    /\ (falling = {} /\ rising # {}) => st.trend = "up"
                    /\ (rising = {} /\ falling # {}) => st.trend = "down"
                    /\ (rising = {} /\ falling = {}) => st.trend = "flat"
                    /\ st.trend = "up" => rising # {}
                    /\ st.trend = "down" => falling # {}
                    /\ LET slope == PairwiseRise(sets, st.name, last,
                                       {p \in last \X last : p[1] < p[2]})
                       IN /\ st.trend = "up" <=> slope > 0
                          /\ st.trend = "down" <=> slope < 0
                          /\ st.trend = "flat" <=> slope = 0

\* One profile holds an exercise with three sessions of rising estimated 1RM,
\* trend up, and an exercise with one session, trend "insufficient data".
C16_Witness ==
    /\ analysis.result # NotRun
    /\ \E a, b \in analysis.result.exercises :
          /\ a.sessions = 3 /\ a.trend = "up"
          /\ b.sessions = 1 /\ b.trend = "insufficient data"

\* C17 as stated: a routine whose title is unique in the list is shown with
\* its bare title, and two distinct routines of the list that share a title
\* are shown with extended titles that differ.
C17_Original ==
    ~history.loading =>
        \A i, j \in 1..Len(history.routines) :
            LET ri == history.routines[i]
                rj == history.routines[j]
                shown(r) == formatContextTitle(history.routines, r)
            IN /\ (\A k \in 1..Len(history.routines) :
                      k # i => TitleOrDefault(history.routines[k]) # TitleOrDefault(ri))
                  => shown(ri) = TitleOrDefault(ri)
               /\ (i # j /\ TitleOrDefault(ri) = TitleOrDefault(rj))
                  => /\ shown(ri) # TitleOrDefault(ri)
                     /\ shown(ri) # shown(rj)

\* C19: a call of handleAddToChat is made for the routine that was opened;
\* when the login check answers true it stores, under
\* repsense_pending_chat_message, the context block of that routine followed
\* by the trimmed note, or by the default note when the note is blank, and
\* goes to '/'; when the check answers false or throws it stores nothing and
\* goes to '/'.
C19_AddToChatMessage ==
    [][ /\ Len(addCalls') > Len(addCalls) =>
             /\ addCalls'[Len(addCalls')].activeRoutine = history.activeRoutine
             /\ \E i \in 1..Len(history.routines) :
                   history.routines[i] = history.activeRoutine
        /\ \A k \in 1..Len(addCalls) :
             (addCalls[k].pc = "isLoggedIn" /\ addCalls'[k].pc = "done") =>
                LET r == addCalls[k].activeRoutine
                    note == addCalls[k].userPrompt
                    blank == note \in {"", "  "}
                    block ==
                        "[[context:routine:" \o r.id \o "]]\n"
                        \o "Title: " \o (IF r.title = "" THEN "Generated Routine" ELSE r.title)
                        \o "\nGoal: " \o (IF r.goal = "" THEN "unspecified" ELSE r.goal)
                        \o "\nDays/Week: "
                        \o (IF r.days_per_week = << >> THEN "unspecified"
                            ELSE ToString(r.days_per_week[1]))
                        \o "\nFocus: "
                        \o (CASE r.focus_muscles = << >> -> "unspecified"
                              [] r.focus_muscles = <<"Legs">> -> "Legs"
                              [] r.focus_muscles = <<"Chest", "Arms">> -> "Chest, Arms"
                              [] OTHER -> "Chest, Arms, Back")
                        \o "\n[[/context]]\n"
                IN /\ history'.location = "/"
                   /\ IF addCalls'[k].loggedIn = "true"
                      THEN localStorage' =
                             {<<"repsense_pending_chat_message",
                                block \o (IF blank THEN "Use this routine as context."
                                          ELSE "swap the order")>>}
                      ELSE localStorage' = localStorage
      ]_vars

\* The routine r2 of a list of two was opened, a note typed with blanks around
\* it, and the message for r2 with the trimmed note is stored.
C19_Witness ==
    /\ Len(addCalls) = 1
    /\ addCalls[1].pc = "done" /\ addCalls[1].loggedIn = "true"
    /\ addCalls[1].activeRoutine.id = "r2"
    /\ addCalls[1].userPrompt = " swap the order "
    /\ history.location = "/"
    /\ \E kv \in localStorage : kv[1] = PendingKey

\* C18: users authenticate before they chat.  The upload, focus and chat
\* views are shown only in a visit in which the startup auth check found the
\* user logged in or a Magic login succeeded; the step that enters the chat
\* view is the auth check of a logged-in user, handleLogin called by the login
\* screen after a successful login, or the end of the onboarding that such a
\* step started; a visitor whose auth check failed or answered not logged in,
\* and who has not logged in, is on the login view.
C18_AuthenticateBeforeChat ==
    /\ [](home.view # "login" =>
            \/ home.checkAuth.loggedIn = "true"
            \/ \E k \in 1..Len(logins) : logins[k].otp = "ok")
    /\ []((/\ home.checkAuth.pc = "done"
           /\ home.checkAuth.loggedIn \in {"false", "throws"}
           /\ \A k \in 1..Len(logins) : logins[k].otp # "ok")
          => (home.view = "login" /\ ~home.isCheckingAuth))
    /\ [][ (home.view # "chat" /\ home'.view = "chat") =>
             \/ /\ home.checkAuth.pc = "getInfo" /\ home'.checkAuth.pc = "done"
                /\ home.checkAuth.loggedIn = "true"
             \/ \E k \in 1..Len(logins) :
                   /\ logins[k].pc = "getInfo" /\ logins'[k].pc = "done"
                   /\ logins[k].otp = "ok"
             \/ home.view = "focus"
       ]_vars

\* The auth check answered not logged in, a first login failed, a second
\* succeeded, and the onboarded user is in the chat view.
C18_Witness ==
    /\ home.view = "chat"
    /\ home.checkAuth.loggedIn = "false"
    /\ Len(logins) = 2
    /\ logins[1].otp = "throws"
    /\ logins[2].otp = "ok" /\ logins[2].pc = "done"

\* C20: applying the initial schema is idempotent, and a reset ends with the
\* six empty tables.  A run of the migrations on a database where the tables
\* and indexes of the initial schema exist changes no table, no row and no
\* index; a run of the reset script, whatever the database held, ends with
\* exactly routines, user_csvs, user_profiles, chat_sessions, chat_messages
\* and episodic_memories, each without rows.
C20_MigrationIdempotentResetEmpty ==
    /\ [][ (SchemaExists(db) /\ db'.last = "migrate") =>
             (db'.tables = db.tables /\ db'.indexes = db.indexes) ]_vars
    /\ [][ (db'.resets # db.resets) =>
             /\ DOMAIN db'.tables = {"routines", "user_csvs", "user_profiles",
                                     "chat_sessions", "chat_messages",
                                     "episodic_memories"}
             /\ \A t \in DOMAIN db'.tables : db'.tables[t] = {} ]_vars
    /\ [](SchemaExists(db) =>
            /\ apply_migrations(db).tables = db.tables
            /\ apply_migrations(db).indexes = db.indexes
            /\ DOMAIN reset_db(db).tables = DOMAIN db.tables
            /\ RowCount(reset_db(db), DOMAIN db.tables) = 0)

\* A populated database was reset, rows were inserted again, and the
\* migrations were run over them.
C20_Witness ==
    /\ db.resets = 1
    /\ db.last = "migrate"
    /\ db.tables["routines"] = {1}
    /\ db.tables["chat_messages"] = {2}

\* C21 as stated, in the case where nothing was sent: when no getChatMessages
\* request is in flight and a session is selected, the displayed messages are
\* the history of the session named by activeSessionId (or none, when its
\* request failed), whatever the order the responses arrived in.
C21_Original ==
    (/\ sends = << >>
     /\ chat.activeSessionId # NullId
     /\ \A k \in 1..Len(selects) : selects[k].pc = "done")
    => chat.messages \in {serverHistory[chat.activeSessionId], << >>}

\* The assistant message handleSendMessage appends for call n
ReplyMsg(n) ==
    IF sendMessage(n, sends[n].outcome).threw
    THEN ChatMsg("assistant", ErrorText)
    ELSE ChatMsg("assistant", sendMessage(n, sends[n].outcome).text)

\* C22 as stated: once a request sent in conversation C has settled and no
\* session is being loaded, its reply (or its failure message, when it is the
\* only request that failed) is in the displayed list only if the
\* conversation displayed is still C.
C22_Original ==
    \A n \in 1..Len(sends) :
        (/\ sends[n].pc = "done"
         /\ \A k \in 1..Len(selects) : selects[k].pc = "done"
         /\ \A m \in 1..Len(sends) :
               (m # n /\ sends[m].outcome = "error") => sends[n].outcome # "error"
         /\ \E i \in 1..Len(chat.messages) : chat.messages[i] = ReplyMsg(n))
        => chat.chatId = sends[n].chatId

\* C23 as stated: in every reachable state activeSessionId is null or equal
\* to chatId, the id under which the next message is sent.
C23_Original ==
    chat.activeSessionId = NullId \/ chat.activeSessionId = chat.chatId

\* C24 as stated: at most one chat request is in flight at any time.
C24_Original ==
    Cardinality({n \in 1..Len(sends) : sends[n].pc = "sent"}) <= 1

\* C25 as stated: for every reply of type routine, whose text is
\* routine-gen-<routine_id>, the chat screen renders a link to
\* /routine/<routine_id>.
C25_Original ==
    \A i \in 1..Len(screen.replies) :
        screen.replies[i].type = "routine" =>
            \E k \in 1..Len(screen.rendered[i]) :
                /\ screen.rendered[i][k].kind = "Link"
                /\ RoutineGen \o SubSeq(screen.rendered[i][k].href, 10,
                                        Len(screen.rendered[i][k].href))
                      = screen.replies[i].text

====
